---- MODULE Spec2Model ----
(***************************************************************************)
(* Model of mcp-atlassian: the synchronous (HTTP) transport binding of     *)
(* http_server.py bridged onto the MCP engine loop over two in-memory      *)
(* rendezvous channels, the validation layer of validation.py, and the     *)
(* engine handlers of mcp_methods.py (list_resources, read_resource,       *)
(* call_tool).                                                             *)
(*                                                                         *)
(* Strings are sequences of tokens.  The two channels are created by       *)
(* create_memory_object_stream() with its default buffer size of zero:     *)
(* a send completes only when a receiver takes the item, blocked senders   *)
(* and blocked receivers are served first-in first-out.                    *)
(***************************************************************************)
EXTENDS Integers, Sequences, FiniteSets, TLC

VARIABLES
    pc,            \* per call of handle_mcp_request: idle, sending, waiting, done
    req,           \* per call: the request body (kind, id, method, params)
    outcome,       \* per call: what the HTTP caller gets back
    waited,        \* per call: seconds spent inside wait_for(receive, 5.0)
    afterFailure,  \* per call: submitted after some other call had failed
    recvq,         \* calls blocked in server_to_client_receive.receive(), in order
    outq,          \* engine replies blocked in server_to_client_send.send(), in order
    inflight,      \* ids of the requests the engine took and has not answered
    engine,        \* state of the background task server_runner
    closed,        \* the engine loop closed its two stream ends when it ended
    op,            \* engine handlers: the call just handled
    result,        \* engine handlers: what the handler returned or raised
    calls,         \* engine handlers: the provider calls the handler made
    life,          \* lifespan: boot, probing, serving, awaiting, down
    task,          \* lifespan: server_task, from creation to its end
    status_queue,  \* lifespan: the statuses server_runner has put, in order
    launched,      \* lifespan: number of create_task calls
    probeWaited,   \* lifespan: seconds spent inside wait_for(status_queue.get(), 5.0)
    probe,         \* lifespan: what the startup probe logged
    cancelSent,    \* lifespan: server_task.cancel() was called
    propagated     \* lifespan: the exception that left the shutdown code

bvars == <<pc, req, outcome, waited, afterFailure, recvq, outq, inflight, engine, closed>>
evars == <<op, result, calls>>
lvars == <<life, task, status_queue, launched, probeWaited, probe, cancelSent, propagated>>
vars == <<pc, req, outcome, waited, afterFailure, recvq, outq, inflight, engine, closed,
          op, result, calls,
          life, task, status_queue, launched, probeWaited, probe, cancelSent, propagated>>

(***************************************************************************)
(* Bounds                                                                  *)
(***************************************************************************)
NumCalls == 2

Callers == 1..NumCalls

NoId == 0

(***************************************************************************)
(* validation.py                                                           *)
(***************************************************************************)
InitFields == {"protocolVersion", "capabilities", "clientInfo"}

CompleteFields == {"ref", "argument"}

Valid == [ok |-> TRUE, status |-> 200, detail |-> "ok", missing |-> {}]

Invalid(detail, missing) ==
    [ok |-> FALSE, status |-> 400, detail |-> detail, missing |-> missing]

\* A params value: None, or a dict with the given keys; types gives the Python
\* type of the value under each key, ciKeys the keys of the clientInfo dict.
NoParams == [isNone |-> TRUE, keys |-> {}, types |-> <<>>, ciKeys |-> {}]

Dict(keys, types, ciKeys) ==
    [isNone |-> FALSE, keys |-> keys, types |-> types, ciKeys |-> ciKeys]

validate_initialize_params_untyped(params) ==
    IF params.isNone THEN Invalid("initialize requires params", {})
    ELSE LET missing_fields == {k \in InitFields : k \notin params.keys}
         IN  IF missing_fields # {}
                 THEN Invalid("Initialize request missing required fields", missing_fields)
             ELSE IF "name" \notin params.ciKeys \/ "version" \notin params.ciKeys
                 THEN Invalid("clientInfo must include name and version", {})
             ELSE Valid

validate_initialize_params_first_missing(params) ==
    IF params.isNone THEN Invalid("initialize requires params", {})
    ELSE LET missing_fields == {k \in InitFields : k \notin params.keys}
         IN  IF missing_fields # {}
                 THEN Invalid("Initialize request missing required fields",
                              {CHOOSE k \in missing_fields : TRUE})
             ELSE IF params.types["protocolVersion"] # "str"
                 THEN Invalid("protocolVersion must be a string", {})
             ELSE IF params.types["capabilities"] # "dict"
                 THEN Invalid("capabilities must be an object", {})
             ELSE IF params.types["clientInfo"] # "dict"
                 THEN Invalid("clientInfo must be an object", {})
             ELSE IF "name" \notin params.ciKeys \/ "version" \notin params.ciKeys
                 THEN Invalid("clientInfo must include name and version", {})
             ELSE Valid

validate_initialize_params(params) ==
    IF params.isNone THEN Invalid("initialize requires params", {})
    ELSE LET missing_fields == {k \in InitFields : k \notin params.keys}
         IN  IF missing_fields # {}
                 THEN Invalid("Initialize request missing required fields", missing_fields)
             ELSE IF params.types["protocolVersion"] # "str"
                 THEN Invalid("protocolVersion must be a string", {})
             ELSE IF params.types["capabilities"] # "dict"
                 THEN Invalid("capabilities must be an object", {})
             ELSE IF params.types["clientInfo"] # "dict"
                 THEN Invalid("clientInfo must be an object", {})
             ELSE IF "name" \notin params.ciKeys \/ "version" \notin params.ciKeys
                 THEN Invalid("clientInfo must include name and version", {})
             ELSE Valid

validate_read_resource_params(params) ==
    IF params.isNone \/ "uri" \notin params.keys
        THEN Invalid("resources/read request requires uri parameter", {})
        ELSE Valid

validate_call_tool_params(params) ==
    IF params.isNone \/ "name" \notin params.keys
        THEN Invalid("tools/call request requires name parameter", {})
        ELSE Valid

validate_complete_params(params) ==
    IF params.isNone THEN Invalid("completion/complete requires params", {})
    ELSE LET missing_fields == {k \in CompleteFields : k \notin params.keys}
         IN  IF missing_fields # {}
                 THEN Invalid("completion/complete request missing required fields",
                              missing_fields)
                 ELSE Valid

VALIDATORS == {"initialize", "resources/read", "tools/call", "completion/complete"}

validate_request_skipped(method, params) == Valid

validate_request_requires_params(method, params) ==
    IF params.isNone THEN Invalid("params required", {}) ELSE Valid

validate_request(method, params) ==
    IF method \notin VALIDATORS THEN Valid
    ELSE CASE method = "initialize" -> validate_initialize_params(params)
           [] method = "resources/read" -> validate_read_resource_params(params)
           [] method = "tools/call" -> validate_call_tool_params(params)
           [] method = "completion/complete" -> validate_complete_params(params)

(***************************************************************************)
(* http_server.py: handle_mcp_request                                      *)
(***************************************************************************)
WaitTimeout == 5

InternalError == -32603

NoReq == [kind |-> "none", id |-> NoId, method |-> "", params |-> NoParams]

NoOutcome == [body |-> "pending", status |-> 0, id |-> NoId, isError |-> FALSE,
              code |-> 0, why |-> "none"]

\* The calls the binding is driven with: a method without validator, which
\* passes validation, and a tools/call without params, which fails it.
SampleCalls ==
    { [method |-> "tools/list", params |-> NoParams],
      [method |-> "tools/call", params |-> NoParams] }

IsNotificationNever(r) == FALSE

\* isinstance(request, JSONRPCNotification)
IsNotification(r) == r.kind = "notification"

\* return None: HTTP 200 with a null body
NullReply == [body |-> "null", status |-> 200, id |-> NoId, isError |-> FALSE,
              code |-> 0, why |-> "none"]

ErrorReplyForeignId(r, why) ==
    IF r.kind = "request"
        THEN [body |-> "response", status |-> 200, id |-> NoId, isError |-> TRUE,
              code |-> InternalError, why |-> why]
        ELSE [body |-> "http_exception", status |-> 500, id |-> NoId, isError |-> TRUE,
              code |-> 0, why |-> why]

\* The outer except: a Request is answered by a JSONRPCResponse whose result
\* holds the error, anything else by HTTPException(500).
ErrorReply(r, why) ==
    IF r.kind = "request"
        THEN [body |-> "response", status |-> 200, id |-> r.id, isError |-> TRUE,
              code |-> InternalError, why |-> why]
        ELSE [body |-> "http_exception", status |-> 500, id |-> NoId, isError |-> TRUE,
              code |-> 0, why |-> why]

\* What receive() can return: a response, another JSON-RPC message, or an
\* exception object
MessageTypes == {"JSONRPCResponse", "JSONRPCError", "Exception"}

UnwrapResponseNoId(r, msg) ==
    IF msg.type = "JSONRPCResponse"
        THEN [body |-> "response", status |-> 200, id |-> NoId, isError |-> FALSE,
              code |-> 0, why |-> "none"]
        ELSE IF msg.type = "Exception" THEN ErrorReply(r, "exception")
        ELSE ErrorReply(r, "unexpected")

\* What the caller returns for the message it received from the outbound
\* channel: the id of the reply is the id of the message, not of the request.
UnwrapResponse(r, msg) ==
    IF msg.type = "JSONRPCResponse"
        THEN [body |-> "response", status |-> 200, id |-> msg.id, isError |-> FALSE,
              code |-> 0, why |-> "none"]
        ELSE IF msg.type = "Exception" THEN ErrorReply(r, "exception")
        ELSE ErrorReply(r, "unexpected")

TimerNeverExpires(w) == FALSE

\* asyncio.wait_for(..., timeout=5.0)
TimerExpired(w) == w >= WaitTimeout

Failed(o) == o.body \in {"response", "http_exception"} /\ o.isError

Remove(q, c) == SelectSeq(q, LAMBDA x : x # c)

\* validate_request, wrap, and start client_to_server_send.send(message).
\* Calls are numbered in the order they arrive; a Request's id is its number.
Submit(c, kind, call) ==
    /\ pc[c] = "idle"
    /\ \A d \in Callers : d < c => pc[d] # "idle"
    /\ LET r == [kind |-> kind, id |-> IF kind = "request" THEN c ELSE NoId,
                 method |-> call.method, params |-> call.params]
           v == validate_request(call.method, call.params)
       IN  /\ req' = [req EXCEPT ![c] = r]
           /\ afterFailure' = [afterFailure EXCEPT
                   ![c] = \E d \in Callers : pc[d] = "done" /\ Failed(outcome[d])]
           /\ IF v.ok
                  THEN /\ pc' = [pc EXCEPT ![c] = "sending"]
                       /\ UNCHANGED outcome
                  ELSE /\ pc' = [pc EXCEPT ![c] = "done"]
                       /\ outcome' = [outcome EXCEPT ![c] = ErrorReply(r, "validation")]
    /\ UNCHANGED <<waited, recvq, outq, inflight, engine, closed>>
    /\ UNCHANGED <<evars, lvars>>

\* The engine loop takes the message of a blocked send. The sender goes on: a
\* Notification returns None; a Request calls receive(), which returns the
\* item of the first blocked sender at once when there is one.
EngineReceive(c) ==
    /\ engine = "running"
    /\ pc[c] = "sending"
    /\ IF IsNotification(req[c])
           THEN /\ pc' = [pc EXCEPT ![c] = "done"]
                /\ outcome' = [outcome EXCEPT ![c] = NullReply]
                /\ UNCHANGED <<waited, recvq, outq, inflight>>
           ELSE /\ inflight' = inflight \cup {req[c].id}
                /\ IF outq # <<>>
                       THEN /\ pc' = [pc EXCEPT ![c] = "done"]
                            /\ outcome' = [outcome EXCEPT
                                    ![c] = UnwrapResponse(req[c], Head(outq))]
                            /\ outq' = Tail(outq)
                            /\ UNCHANGED <<waited, recvq>>
                       ELSE /\ pc' = [pc EXCEPT ![c] = "waiting"]
                            /\ recvq' = Append(recvq, c)
                            /\ waited' = [waited EXCEPT ![c] = 0]
                            /\ UNCHANGED <<outcome, outq>>
    /\ UNCHANGED <<req, afterFailure, engine, closed>>
    /\ UNCHANGED <<evars, lvars>>

\* A handler of the engine finishes and sends its reply on the outbound
\* channel: to the first blocked receiver, or it blocks in send.
EngineReply(i, type) ==
    /\ engine = "running"
    /\ i \in inflight
    /\ inflight' = inflight \ {i}
    /\ LET msg == [type |-> type, id |-> i]
       IN  IF recvq # <<>>
               THEN /\ pc' = [pc EXCEPT ![Head(recvq)] = "done"]
                    /\ outcome' = [outcome EXCEPT
                            ![Head(recvq)] = UnwrapResponse(req[Head(recvq)], msg)]
                    /\ recvq' = Tail(recvq)
                    /\ waited' = [waited EXCEPT ![Head(recvq)] = 0]
                    /\ UNCHANGED outq
               ELSE /\ outq' = Append(outq, msg)
                    /\ UNCHANGED <<pc, outcome, recvq, waited>>
    /\ UNCHANGED <<req, afterFailure, engine, closed>>
    /\ UNCHANGED <<evars, lvars>>

\* One second passes for every call inside wait_for.
Tick ==
    /\ \E c \in Callers : pc[c] = "waiting"
    /\ \A c \in Callers : pc[c] = "waiting" => waited[c] < WaitTimeout
    /\ waited' = [c \in Callers |-> IF pc[c] = "waiting" THEN waited[c] + 1 ELSE waited[c]]
    /\ UNCHANGED <<pc, req, outcome, afterFailure, recvq, outq, inflight, engine, closed>>
    /\ UNCHANGED <<evars, lvars>>

\* asyncio.TimeoutError: HTTPException(500) raised inside the outer try
TimeoutFire(c) ==
    /\ pc[c] = "waiting"
    /\ TimerExpired(waited[c])
    /\ pc' = [pc EXCEPT ![c] = "done"]
    /\ outcome' = [outcome EXCEPT ![c] = ErrorReply(req[c], "timeout")]
    /\ recvq' = Remove(recvq, c)
    /\ waited' = [waited EXCEPT ![c] = 0]
    /\ UNCHANGED <<req, afterFailure, outq, inflight, engine, closed>>
    /\ UNCHANGED <<evars, lvars>>

\* send() on a channel whose receiving end the engine closed raises
SendFails(c) ==
    /\ closed
    /\ pc[c] = "sending"
    /\ pc' = [pc EXCEPT ![c] = "done"]
    /\ outcome' = [outcome EXCEPT ![c] = ErrorReply(req[c], "channel")]
    /\ UNCHANGED <<req, waited, afterFailure, recvq, outq, inflight, engine, closed>>
    /\ UNCHANGED <<evars, lvars>>

\* receive() on a channel whose sending end the engine closed raises
RecvFails(c) ==
    /\ closed
    /\ pc[c] = "waiting"
    /\ pc' = [pc EXCEPT ![c] = "done"]
    /\ outcome' = [outcome EXCEPT ![c] = ErrorReply(req[c], "channel")]
    /\ recvq' = Remove(recvq, c)
    /\ waited' = [waited EXCEPT ![c] = 0]
    /\ UNCHANGED <<req, afterFailure, outq, inflight, engine, closed>>
    /\ UNCHANGED <<evars, lvars>>

(***************************************************************************)
(* http_server.py: lifespan.server_runner                                  *)
(***************************************************************************)
\* mcp_app.run(...) starts reading client_to_server_receive
EngineStart ==
    /\ engine = "starting"
    /\ engine' = "running"
    /\ UNCHANGED <<pc, req, outcome, waited, afterFailure, recvq, outq, inflight, closed>>
    /\ UNCHANGED <<evars, lvars>>

\* create_initialization_options raises: the loop is never run, the task
\* ends in its except branch and nothing reads the inbound channel.
EngineStartFail ==
    /\ engine = "starting"
    /\ engine' = "failed"
    /\ UNCHANGED <<pc, req, outcome, waited, afterFailure, recvq, outq, inflight, closed>>
    /\ UNCHANGED <<evars, lvars>>

\* mcp_app.run(..., raise_exceptions=True) ends or raises: its handlers are
\* cancelled with it; the loop may or may not have closed its stream ends.
EngineStop(cl) ==
    /\ engine = "running"
    /\ engine' = "stopped"
    /\ closed' = cl
    /\ inflight' = {}
    /\ outq' = <<>>
    /\ UNCHANGED <<pc, req, outcome, waited, afterFailure, recvq>>
    /\ UNCHANGED <<evars, lvars>>

(***************************************************************************)
(* http_server.py: lifespan, from boot to shutdown                         *)
(***************************************************************************)
StartupTimeout == 5

\* server_task.done()
TaskDone == {"returned", "cancelled", "raised"}

\* server_task = asyncio.create_task(server_runner())
CreateTask ==
    /\ life = "boot"
    /\ task' = "created"
    /\ launched' = launched + 1
    /\ life' = "probing"
    /\ UNCHANGED <<status_queue, probeWaited, probe, cancelSent, propagated>>
    /\ UNCHANGED <<bvars, evars>>

\* server_runner up to its first suspension: it puts "starting", builds the
\* initialization options and enters mcp_app.run; when the options raise,
\* the except branch puts the error status and the task returns.
RunnerStarts(initOk) ==
    /\ task = "created"
    /\ ~cancelSent
    /\ status_queue' = IF initOk THEN Append(status_queue, "starting")
                       ELSE status_queue \o <<"starting", "error">>
    /\ task' = IF initOk THEN "running" ELSE "returned"
    /\ UNCHANGED <<life, launched, probeWaited, probe, cancelSent, propagated>>
    /\ UNCHANGED <<bvars, evars>>

\* mcp_app.run returns, or raises and the except branch puts the error status
RunnerEnds(raises) ==
    /\ task = "running"
    /\ ~cancelSent
    /\ status_queue' = IF raises THEN Append(status_queue, "error") ELSE status_queue
    /\ task' = "returned"
    /\ UNCHANGED <<life, launched, probeWaited, probe, cancelSent, propagated>>
    /\ UNCHANGED <<bvars, evars>>

AfterProbeAborting(status) == IF status = "starting" THEN "serving" ELSE "aborted"

\* Both branches of the probe and its except branch only log; yield follows.
AfterProbe(status) == "serving"

\* A second passes with nothing to get
ProbeTick ==
    /\ life = "probing"
    /\ status_queue = <<>>
    /\ probeWaited < StartupTimeout
    /\ probeWaited' = probeWaited + 1
    /\ UNCHANGED <<life, task, status_queue, launched, probe, cancelSent, propagated>>
    /\ UNCHANGED <<bvars, evars>>

\* status = await asyncio.wait_for(status_queue.get(), timeout=5.0)
ProbeGet ==
    /\ life = "probing"
    /\ status_queue # <<>>
    /\ probe' = IF Head(status_queue) = "starting" THEN "starting" ELSE "unexpected"
    /\ status_queue' = Tail(status_queue)
    /\ life' = AfterProbe(Head(status_queue))
    /\ UNCHANGED <<task, launched, probeWaited, cancelSent, propagated>>
    /\ UNCHANGED <<bvars, evars>>

\* except asyncio.TimeoutError
ProbeTimeout ==
    /\ life = "probing"
    /\ status_queue = <<>>
    /\ probeWaited = StartupTimeout
    /\ probe' = "timeout"
    /\ life' = AfterProbe("timeout")
    /\ UNCHANGED <<task, status_queue, launched, probeWaited, cancelSent, propagated>>
    /\ UNCHANGED <<bvars, evars>>

\* The code after yield: if server_task and not server_task.done(): cancel()
Shutdown ==
    /\ life = "serving"
    /\ IF task \notin TaskDone
           THEN /\ cancelSent' = TRUE
                /\ life' = "awaiting"
           ELSE /\ life' = "down"
                /\ UNCHANGED cancelSent
    /\ UNCHANGED <<task, status_queue, launched, probeWaited, probe, propagated>>
    /\ UNCHANGED <<bvars, evars>>

\* The cancelled task unwinds: it ends cancelled; or its teardown raises an
\* Exception, which its except branch turns into an error status and a
\* normal return; or an exception leaves server_runner itself.
RunnerUnwinds(how) ==
    /\ cancelSent
    /\ task \notin TaskDone
    /\ task' = how
    /\ status_queue' = IF how = "returned" THEN Append(status_queue, "error")
                       ELSE status_queue
    /\ UNCHANGED <<life, launched, probeWaited, probe, cancelSent, propagated>>
    /\ UNCHANGED <<bvars, evars>>

PropagatedUncaught(how) ==
    CASE how = "cancelled" -> "CancelledError"
      [] how = "raised" -> "Exception"
      [] OTHER -> "none"

\* await server_task inside try / except CancelledError / except Exception:
\* what leaves the try statement for each way the task ended
Propagated(how) == "none"

\* await server_task returns or raises once the task is done
AwaitTask ==
    /\ life = "awaiting"
    /\ task \in TaskDone
    /\ life' = "down"
    /\ propagated' = Propagated(task)
    /\ UNCHANGED <<task, status_queue, launched, probeWaited, probe, cancelSent>>
    /\ UNCHANGED <<bvars, evars>>

NoOp == [method |-> "none"]

(***************************************************************************)
(* mcp_methods.py: strings, provider values                                *)
(***************************************************************************)
MaxItems == 2

MaxDocs == 2

MaxSegments == 4

ExcerptLimit == 500

LimitCap == 50

DefaultLimit == 10

Min(a, b) == IF a < b THEN a ELSE b

\* Sequences over S of length 0..n
SeqsUpTo(S, n) == UNION {[1..k -> S] : k \in 0..n}

\* sep.join(strs) for a sequence of strings
RECURSIVE Join(_, _)
Join(strs, sep) ==
    IF strs = <<>> THEN <<>>
    ELSE IF Len(strs) = 1 THEN strs[1]
    ELSE strs[1] \o sep \o Join(Tail(strs), sep)

\* str.split("/"): the parts between the "/" tokens of s, empty parts kept
RECURSIVE SplitAcc(_, _, _)
SplitAcc(s, cur, acc) ==
    IF s = <<>> THEN Append(acc, cur)
    ELSE IF Head(s) = "/" THEN SplitAcc(Tail(s), <<>>, Append(acc, cur))
    ELSE SplitAcc(Tail(s), Append(cur, Head(s)), acc)

Split(s) == SplitAcc(s, <<>>, <<>>)

\* str.startswith(prefix) for a one-token prefix
StartsWith(s, prefix) == s # <<>> /\ Head(s) = prefix

\* str.replace(token, ""): every occurrence is removed
Replace(s, token) == SelectSeq(s, LAMBDA x : x # token)

\* What a provider call does: raise, or return a value.
Raises(detail) == [raised |-> TRUE, detail |-> detail, value |-> <<>>]

Returns(value) == [raised |-> FALSE, detail |-> "none", value |-> value]

Call(fn, args, ret) == [fn |-> fn, args |-> args, ret |-> ret]

\* What a handler does: return a value, or raise.
Ok(value, log) == [ok |-> TRUE, value |-> value, error |-> <<>>, calls |-> log]

Raise(error, log) == [ok |-> FALSE, value |-> <<>>, error |-> error, calls |-> log]

Keys == {"K1", "K2"}

Space(k) == [key |-> k, name |-> <<"space", k>>, description |-> <<"about", k>>]

Project(k) == [key |-> k, name |-> <<"project", k>>, description |-> <<"about", k>>]

\* The values get_spaces() can return or raise
SpacesReturns ==
    {Raises("wiki down"),
     Returns([isDict |-> FALSE, hasResults |-> FALSE, results |-> <<>>]),
     Returns([isDict |-> TRUE, hasResults |-> FALSE, results |-> <<>>])}
    \cup {Returns([isDict |-> TRUE, hasResults |-> TRUE, results |-> r]) :
            r \in SeqsUpTo({Space(k) : k \in Keys}, MaxItems)}

\* The values jira.projects() can return or raise
ProjectsReturns ==
    {Raises("tracker down")}
    \cup {Returns(r) : r \in SeqsUpTo({Project(k) : k \in Keys}, MaxItems)}

(***************************************************************************)
(* mcp_methods.py: list_resources                                          *)
(***************************************************************************)
Resource(uri, name, description) ==
    [uri |-> uri, name |-> name, mimeType |-> "text/plain", description |-> description]

SpaceResource(space) ==
    Resource(<<"confluence://", space.key>>, <<"Confluence Space: ">> \o space.name,
             space.description)

ProjectResource(project) ==
    Resource(<<"jira://", project.key>>, <<"Jira Project: ">> \o project.name,
             project.description)

list_resources_uncaught(sr, pr) ==
    IF sr.raised THEN Raise(sr.detail, <<Call("get_spaces", <<>>, sr)>>)
    ELSE LET spaces == IF sr.value.isDict /\ sr.value.hasResults
                           THEN sr.value.results ELSE <<>>
             log == <<Call("get_spaces", <<>>, sr), Call("projects", <<>>, pr)>>
         IN  IF pr.raised THEN Raise(pr.detail, log)
             ELSE Ok([i \in 1..Len(spaces) |-> SpaceResource(spaces[i])]
                         \o [i \in 1..Len(pr.value) |-> ProjectResource(pr.value[i])], log)

\* sr: what get_spaces() does; pr: what jira.projects() does.  get_spaces()
\* is called outside any try; jira.projects() inside one that only logs.
list_resources(sr, pr) ==
    IF sr.raised THEN Raise(sr.detail, <<Call("get_spaces", <<>>, sr)>>)
    ELSE LET spaces == IF sr.value.isDict /\ sr.value.hasResults
                           THEN sr.value.results ELSE <<>>
             fromSpaces == [i \in 1..Len(spaces) |-> SpaceResource(spaces[i])]
             fromProjects == IF pr.raised THEN <<>>
                             ELSE [i \in 1..Len(pr.value) |-> ProjectResource(pr.value[i])]
         IN  Ok(fromSpaces \o fromProjects,
                <<Call("get_spaces", <<>>, sr), Call("projects", <<>>, pr)>>)

ListResources(sr, pr) ==
    /\ op = NoOp
    /\ op' = [method |-> "resources/list"]
    /\ LET r == list_resources(sr, pr)
       IN  /\ result' = [ok |-> r.ok, value |-> r.value, error |-> r.error]
           /\ calls' = r.calls
    /\ UNCHANGED <<bvars, lvars>>

(***************************************************************************)
(* mcp_methods.py: read_resource                                           *)
(***************************************************************************)
\* A Document: metadata and page_content
Doc(key, title, content) == [none |-> FALSE, key |-> key, title |-> title, content |-> content]

\* None returned in place of a Document
NoDoc == [none |-> TRUE, key |-> "", title |-> "", content |-> <<>>]

ShortDocs == {Doc("PROJ-1", "T1", <<"x", "y">>), Doc("PROJ-2", "T2", <<>>)}

Schemes == {"confluence://", "jira://", "bogus://"}

\* Path segments: empty, or one token
Segments == {<<>>, <<"K1">>, <<"pages">>, <<"issues">>, <<"T1">>}

\* str(uri) for a scheme and path segments
UriStr(scheme, segs) == <<scheme>> \o Join(segs, <<"/">>)

\* What the provider does when called: it raises, or it returns docs from a
\* listing call and, from a lookup call, the first of docs (None when empty).
\* A handler makes at most one provider call.
\* str(e) of the exceptions a provider call raises
ErrorDetails == {"HTTP 401", "HTTP 503"}

Provider(raises, detail, docs) == [raises |-> raises, detail |-> detail, docs |-> docs]

Failing(detail) == Provider(TRUE, detail, <<>>)

Behaviours(D) ==
    {Failing(d) : d \in ErrorDetails}
        \cup {Provider(FALSE, "none", docs) : docs \in SeqsUpTo(D, MaxDocs)}

Listing(P) == IF P.raises THEN Raises(P.detail) ELSE Returns(P.docs)

Lookup(P) ==
    IF P.raises THEN Raises(P.detail)
    ELSE Returns(IF P.docs = <<>> THEN NoDoc ELSE P.docs[1])

PageBlockUnterminated(doc) == <<"# ", doc.title, "\n\n">> \o doc.content

\* f"# {doc.metadata['title']}\n\n{doc.page_content}\n---"
PageBlock(doc) == <<"# ", doc.title, "\n\n">> \o doc.content \o <<"\n---">>

\* f"# {issue.metadata['key']}: {issue.metadata['title']}\n\n{issue.page_content}\n---"
IssueBlock(doc) == <<"# ", doc.key, ": ", doc.title, "\n\n">> \o doc.content \o <<"\n---">>

InvalidUri(log) == Raise(<<"Invalid resource URI">>, log)

read_confluence(parts, P) ==
    IF Len(parts) = 1
        THEN LET ret == Listing(P)
                 log == <<Call("get_space_pages", <<parts[1]>>, ret)>>
             IN  IF ret.raised THEN Raise(<<ret.detail>>, log)
                 ELSE Ok(Join([i \in 1..Len(ret.value) |-> PageBlock(ret.value[i])],
                              <<"\n\n">>), log)
    ELSE IF Len(parts) >= 3 /\ parts[2] = <<"pages">>
        THEN LET ret == Lookup(P)
                 log == <<Call("get_page_by_title", <<parts[1], parts[3]>>, ret)>>
             IN  IF ret.raised THEN Raise(<<ret.detail>>, log)
                 ELSE IF ret.value.none THEN Raise(<<"Page not found">>, log)
                 ELSE Ok(ret.value.content, log)
    ELSE InvalidUri(<<>>)

read_jira(parts, P) ==
    IF Len(parts) = 1
        THEN LET ret == Listing(P)
                 log == <<Call("get_project_issues", <<parts[1]>>, ret)>>
             IN  IF ret.raised THEN Raise(<<ret.detail>>, log)
                 ELSE Ok(Join([i \in 1..Len(ret.value) |-> IssueBlock(ret.value[i])],
                              <<"\n\n">>), log)
    ELSE IF Len(parts) >= 3 /\ parts[2] = <<"issues">>
        THEN LET ret == Lookup(P)
                 log == <<Call("get_issue", <<parts[3]>>, ret)>>
             IN  IF ret.raised THEN Raise(<<ret.detail>>, log)
                 ELSE IF ret.value.none THEN Raise(<<"AttributeError">>, log)
                 ELSE Ok(ret.value.content, log)
    ELSE InvalidUri(<<>>)

read_resource(uri_str, P) ==
    IF StartsWith(uri_str, "confluence://")
        THEN read_confluence(Split(Replace(uri_str, "confluence://")), P)
    ELSE IF StartsWith(uri_str, "jira://")
        THEN read_jira(Split(Replace(uri_str, "jira://")), P)
    ELSE InvalidUri(<<>>)

ReadResource(scheme, segs, P) ==
    /\ op = NoOp
    /\ op' = [method |-> "resources/read", scheme |-> scheme, segs |-> segs]
    /\ LET r == read_resource(UriStr(scheme, segs), P)
       IN  /\ result' = [ok |-> r.ok, value |-> r.value, error |-> r.error]
           /\ calls' = r.calls
    /\ UNCHANGED <<bvars, lvars>>

(***************************************************************************)
(* mcp_methods.py: call_tool                                               *)
(***************************************************************************)
\* Tool(name=..., inputSchema=...): the name, the required properties, and
\* the bounds and default of the limit property where the schema has one
NoLimit == [declared |-> FALSE, minimum |-> 0, maximum |-> 0, default |-> 0]

LimitSchema == [declared |-> TRUE, minimum |-> 1, maximum |-> LimitCap, default |-> DefaultLimit]

Tool(name, required, limit) == [name |-> name, required |-> required, limit |-> limit]

list_tools_five ==
    << Tool("confluence_search", {"query"}, LimitSchema),
       Tool("confluence_get_page", {"page_id"}, NoLimit),
       Tool("confluence_get_comments", {"page_id"}, NoLimit),
       Tool("jira_get_issue", {"issue_key"}, NoLimit),
       Tool("jira_search", {"jql"}, LimitSchema) >>

list_tools ==
    << Tool("confluence_search", {"query"}, LimitSchema),
       Tool("confluence_get_page", {"page_id"}, NoLimit),
       Tool("confluence_get_comments", {"page_id"}, NoLimit),
       Tool("jira_get_issue", {"issue_key"}, NoLimit),
       Tool("jira_search", {"jql"}, LimitSchema),
       Tool("jira_get_project_issues", {"project_key"}, LimitSchema) >>

ListTools ==
    /\ op = NoOp
    /\ op' = [method |-> "tools/list"]
    /\ result' = [ok |-> TRUE, value |-> list_tools, error |-> <<>>]
    /\ calls' = <<>>
    /\ UNCHANGED <<bvars, lvars>>

\* The names call_tool has a branch for
ToolNames ==
    {"confluence_search", "confluence_get_page", "confluence_get_comments",
     "jira_get_issue", "jira_search", "jira_get_project_issues"}

\* The argument names the handler of a tool reads
ArgNames(name) ==
    CASE name = "confluence_search" -> {"query", "limit"}
      [] name = "confluence_get_page" -> {"page_id", "include_metadata"}
      [] name = "confluence_get_comments" -> {"page_id"}
      [] name = "jira_get_issue" -> {"issue_key", "expand"}
      [] name = "jira_search" -> {"jql", "fields", "limit"}
      [] name = "jira_get_project_issues" -> {"project_key", "limit"}
      [] OTHER -> {}

\* A value given as limit: an int, a string of digits, or another string
IntVal(n) == [t |-> "int", v |-> n]

DigitsVal(n) == [t |-> "digits", v |-> n]

TextVal == [t |-> "text", v |-> 0]

LimitInputs ==
    {IntVal(n) : n \in {-1, 0, 1, DefaultLimit, LimitCap - 1, LimitCap, LimitCap + 1, 1000}}
    \cup {DigitsVal(20), TextVal}

\* The arguments dict: the keys present, the value under limit and under
\* include_metadata; a string argument k has the value <<"value of", k>>.
Arguments(name) ==
    {a \in [keys : SUBSET ArgNames(name), limit : LimitInputs, include_metadata : BOOLEAN] :
        /\ ("limit" \in a.keys \/ a.limit = IntVal(DefaultLimit))
        /\ ("include_metadata" \in a.keys \/ a.include_metadata)}

ArgValue(k) == <<"value of", k>>

\* int(x): raises ValueError on a string that is not a number
PyInt(x) == [ok |-> x.t # "text", v |-> x.v]

\* arguments.get("limit", 10)
GetLimit(a) == IF "limit" \in a.keys THEN a.limit ELSE IntVal(DefaultLimit)

EffectiveLimitUncapped(requested) == requested

\* min(int(...), 50)
EffectiveLimit(requested) == Min(requested, LimitCap)

\* s[:n]
Slice(s, n) == SubSeq(s, 1, Min(n, Len(s)))

Ellipsis == <<".", ".", ".">>

ExcerptMisparsed(content) ==
    Slice(content, ExcerptLimit) \o (IF Len(content) > ExcerptLimit THEN Ellipsis ELSE content)

\* doc.page_content[:500] + "..." if len(doc.page_content) > 500 else doc.page_content
Excerpt(content) ==
    IF Len(content) > ExcerptLimit THEN Slice(content, ExcerptLimit) \o Ellipsis ELSE content

\* A page_content of n characters
Body(n) == [i \in 1..n |-> IF 2 * i <= ExcerptLimit THEN "a"
                           ELSE IF i <= ExcerptLimit THEN "b" ELSE "c"]

BodyLengths == {0, 300, ExcerptLimit - 1, ExcerptLimit, ExcerptLimit + 1, 650}

LongDocs == {Doc("PROJ-1", "T1", Body(n)) : n \in BodyLengths}

\* The except branch: RuntimeError(f"Tool execution failed: {str(e)}")
ToolFailed(detail, log) == Raise(<<"Tool execution failed: ">> \o detail, log)

\* A handler body from its provider call on: the call raised, or its value
\* is shaped into the reply.
Shaped(fn, args, ret, items) ==
    IF ret.raised THEN ToolFailed(<<ret.detail>>, <<Call(fn, args, ret)>>)
    ELSE Ok(items, <<Call(fn, args, ret)>>)

\* A handler body for a single Document: None has no page_content
ShapedDoc(fn, args, ret, item) ==
    IF ~ret.raised /\ ret.value.none
        THEN ToolFailed(<<"AttributeError">>, <<Call(fn, args, ret)>>)
        ELSE Shaped(fn, args, ret, item)

MissingNever(a, k) == FALSE

\* arguments[k] raises KeyError
Missing(a, k) == k \notin a.keys

call_tool(name, a, P) ==
    CASE name = "confluence_search" ->
            LET lim == PyInt(GetLimit(a))
                docs == Listing(P)
            IN  IF ~lim.ok THEN ToolFailed(<<"ValueError">>, <<>>)
                ELSE IF Missing(a, "query") THEN ToolFailed(<<"KeyError">>, <<>>)
                ELSE Shaped("confluence.search",
                            <<ArgValue("query"), EffectiveLimit(lim.v)>>, docs,
                            [i \in 1..Len(docs.value) |->
                                [page_id |-> docs.value[i].key,
                                 title |-> docs.value[i].title,
                                 excerpt |-> docs.value[i].content]])
      [] name = "confluence_get_page" ->
            LET doc == Lookup(P)
            IN  IF Missing(a, "page_id") THEN ToolFailed(<<"KeyError">>, <<>>)
                ELSE ShapedDoc("confluence.get_page_content", <<ArgValue("page_id")>>, doc,
                               IF a.include_metadata
                                   THEN [content |-> doc.value.content,
                                         metadata |-> <<doc.value.key, doc.value.title>>]
                                   ELSE [content |-> doc.value.content])
      [] name = "confluence_get_comments" ->
            LET docs == Listing(P)
            IN  IF Missing(a, "page_id") THEN ToolFailed(<<"KeyError">>, <<>>)
                ELSE Shaped("confluence.get_page_comments", <<ArgValue("page_id")>>, docs,
                            [i \in 1..Len(docs.value) |->
                                [author |-> docs.value[i].key,
                                 created |-> docs.value[i].title,
                                 content |-> docs.value[i].content]])
      [] name = "jira_get_issue" ->
            LET doc == Lookup(P)
            IN  IF Missing(a, "issue_key") THEN ToolFailed(<<"KeyError">>, <<>>)
                ELSE ShapedDoc("jira.get_issue",
                               <<ArgValue("issue_key"),
                                 IF "expand" \in a.keys THEN ArgValue("expand") ELSE <<"None">>>>,
                               doc,
                               [content |-> doc.value.content,
                                metadata |-> <<doc.value.key, doc.value.title>>])
      [] name = "jira_search" ->
            LET lim == PyInt(GetLimit(a))
                docs == Listing(P)
            IN  IF ~lim.ok THEN ToolFailed(<<"ValueError">>, <<>>)
                ELSE IF Missing(a, "jql") THEN ToolFailed(<<"KeyError">>, <<>>)
                ELSE Shaped("jira.search_issues",
                            <<ArgValue("jql"),
                              IF "fields" \in a.keys THEN ArgValue("fields") ELSE <<"*all">>,
                              EffectiveLimit(lim.v)>>,
                            docs,
                            [i \in 1..Len(docs.value) |->
                                [key |-> docs.value[i].key,
                                 title |-> docs.value[i].title,
                                 excerpt |-> Excerpt(docs.value[i].content)]])
      [] name = "jira_get_project_issues" ->
            LET lim == PyInt(GetLimit(a))
                docs == Listing(P)
            IN  IF ~lim.ok THEN ToolFailed(<<"ValueError">>, <<>>)
                ELSE IF Missing(a, "project_key") THEN ToolFailed(<<"KeyError">>, <<>>)
                ELSE Shaped("jira.get_project_issues",
                            <<ArgValue("project_key"), EffectiveLimit(lim.v)>>, docs,
                            [i \in 1..Len(docs.value) |->
                                [key |-> docs.value[i].key,
                                 title |-> docs.value[i].title]])
      [] OTHER -> ToolFailed(<<"Unknown tool: ", name>>, <<>>)

CallTool(name, a, P) ==
    /\ op = NoOp
    /\ op' = [method |-> "tools/call", name |-> name, arguments |-> a]
    /\ LET r == call_tool(name, a, P)
       IN  /\ result' = [ok |-> r.ok, value |-> r.value, error |-> r.error]
           /\ calls' = r.calls
    /\ UNCHANGED <<bvars, lvars>>

(***************************************************************************)
(* validation.py applied to every method and shape of params               *)
(***************************************************************************)
Methods == VALIDATORS \cup {"resources/list", "tools/list", "ping"}

ParamTypes == {"str", "dict", "int"}

\* The params an initialize can come with: None, or any subset of the
\* required fields, each of any type, clientInfo holding any of name, version
InitializeParams ==
    {NoParams} \cup
    UNION {{Dict(K, t, ci) : t \in [K -> ParamTypes]} :
              K \in SUBSET InitFields, ci \in SUBSET {"name", "version"}}

\* The params of the other methods: None, or a dict of strings
PlainParams ==
    {NoParams} \cup
    {Dict(K, [k \in K |-> "str"], {}) : K \in SUBSET {"uri", "name", "ref", "argument"}}

ParamsOf(method) == IF method = "initialize" THEN InitializeParams ELSE PlainParams

\* handle_mcp_request: validate_request(request.method, request.params)
Validate(method, params) ==
    /\ op = NoOp
    /\ op' = [method |-> "validate", name |-> method, params |-> params]
    /\ result' = validate_request(method, params)
    /\ calls' = <<>>
    /\ UNCHANGED <<bvars, lvars>>

(***************************************************************************)
(* stdio_server.py: the duplex-stream binding                              *)
(***************************************************************************)
\* run_stdio_server: app.run(read_stream, write_stream, init_options) reads
\* each message of the stream itself; the engine has it as it arrived.
StdioReceive(method, params) ==
    /\ op = NoOp
    /\ op' = [method |-> "dispatch", binding |-> "stdio", name |-> method, params |-> params]
    /\ result' = NoOp
    /\ calls' = <<>>
    /\ UNCHANGED <<bvars, lvars>>

\* The reply leaves the handler; the engine takes the next message.
Return ==
    /\ op # NoOp
    /\ op' = NoOp
    /\ result' = NoOp
    /\ calls' = <<>>
    /\ UNCHANGED <<bvars, lvars>>

(***************************************************************************)
(* Specifications                                                          *)
(***************************************************************************)
Init ==
    /\ pc = [c \in Callers |-> "idle"]
    /\ req = [c \in Callers |-> NoReq]
    /\ outcome = [c \in Callers |-> NoOutcome]
    /\ waited = [c \in Callers |-> 0]
    /\ afterFailure = [c \in Callers |-> FALSE]
    /\ recvq = <<>>
    /\ outq = <<>>
    /\ inflight = {}
    /\ engine = "starting"
    /\ closed = FALSE
    /\ op = NoOp
    /\ result = NoOp
    /\ calls = <<>>
    /\ life = "boot"
    /\ task = "none"
    /\ status_queue = <<>>
    /\ launched = 0
    /\ probeWaited = 0
    /\ probe = "none"
    /\ cancelSent = FALSE
    /\ propagated = "none"

Next ==
    \/ \E c \in Callers, kind \in {"request", "notification"}, call \in SampleCalls :
           Submit(c, kind, call)
    \/ \E c \in Callers : EngineReceive(c)
    \/ \E i \in Callers, type \in MessageTypes : EngineReply(i, type)
    \/ Tick
    \/ \E c \in Callers : TimeoutFire(c)
    \/ \E c \in Callers : SendFails(c)
    \/ \E c \in Callers : RecvFails(c)
    \/ EngineStart
    \/ EngineStartFail
    \/ \E cl \in BOOLEAN : EngineStop(cl)

Spec == Init /\ [][Next]_vars

\* The engine handlers, one call at a time
EngineNext ==
    \/ /\ op = NoOp
       /\ \E sr \in SpacesReturns, pr \in ProjectsReturns : ListResources(sr, pr)
    \/ /\ op = NoOp
       /\ \E scheme \in Schemes, n \in 1..MaxSegments :
              \E segs \in [1..n -> Segments] :
                  \E P \in Behaviours(ShortDocs) : ReadResource(scheme, segs, P)
    \/ /\ op = NoOp
       /\ \E name \in ToolNames \cup {"no_such_tool"} :
              \E a \in Arguments(name) :
                  \E P \in Behaviours(IF name = "jira_search" THEN LongDocs ELSE ShortDocs) :
                      CallTool(name, a, P)
    \/ /\ op = NoOp
       /\ ListTools
    \/ Return

EngineSpec == Init /\ [][EngineNext]_vars

\* The validation layer, one call at a time
ValidationNext ==
    \/ /\ op = NoOp
       /\ \E method \in Methods : \E params \in ParamsOf(method) : Validate(method, params)
    \/ Return

ValidationSpec == Init /\ [][ValidationNext]_vars

\* The duplex-stream binding, one message at a time
StdioNext ==
    \/ /\ op = NoOp
       /\ \E method \in Methods : \E params \in ParamsOf(method) : StdioReceive(method, params)
    \/ Return

StdioSpec == Init /\ [][StdioNext]_vars

\* The lifecycle of the synchronous binding
LifeNext ==
    \/ CreateTask
    \/ \E initOk \in BOOLEAN : RunnerStarts(initOk)
    \/ \E raises \in BOOLEAN : RunnerEnds(raises)
    \/ ProbeTick
    \/ ProbeGet
    \/ ProbeTimeout
    \/ Shutdown
    \/ \E how \in TaskDone : RunnerUnwinds(how)
    \/ AwaitTask

LifeSpec == Init /\ [][LifeNext]_vars

\* The event loop runs the lifespan and a cancelled task; nothing obliges
\* the engine loop to end, nor the host to shut the service down.
FairLifeSpec ==
    /\ LifeSpec
    /\ WF_vars(CreateTask)
    /\ WF_vars(ProbeTick)
    /\ WF_vars(ProbeGet)
    /\ WF_vars(ProbeTimeout)
    /\ WF_vars(\E how \in TaskDone : RunnerUnwinds(how))
    /\ WF_vars(AwaitTask)

\* The event loop runs every task that can run and time passes; nothing
\* obliges a handler of the engine to finish, nor a client to submit.
FairSpec ==
    /\ Spec
    /\ WF_vars(Tick)
    /\ WF_vars(EngineStart \/ EngineStartFail)
    /\ \A c \in Callers :
           /\ WF_vars(EngineReceive(c))
           /\ WF_vars(TimeoutFire(c))
           /\ WF_vars(SendFails(c))
           /\ WF_vars(RecvFails(c))

(***************************************************************************)
(* Properties of the synchronous binding                                   *)
(***************************************************************************)
IsRequest(c) == req[c].kind = "request"

Returned(c) == pc[c] = "done"

\* C1: on the synchronous binding, the Response returned to the caller of a
\* Request carries the id of that caller's Request, under every sequence
\* and interleaving of calls.
C1_ResponseCarriesRequestId ==
    \A c \in Callers :
        (Returned(c) /\ IsRequest(c) /\ outcome[c].body = "response")
            => outcome[c].id = req[c].id

\* C2: every Request submitted to the synchronous binding eventually
\* returns to its caller, in every state of the background engine loop.
C2_EveryRequestReturns ==
    \A c \in Callers : (IsRequest(c) /\ pc[c] # "idle") ~> Returned(c)

\* C3: a Request that was pushed and for which no message arrives on the
\* outbound channel stops waiting when the 5-second timer fires, and its
\* caller gets the server error; no caller waits longer than the timeout.
C3_TimeoutEndsWait ==
    /\ [](\A c \in Callers : pc[c] = "waiting" => waited[c] <= WaitTimeout)
    /\ \A c \in Callers : (pc[c] = "waiting") ~> Returned(c)
    /\ [][\A c \in Callers :
            (pc[c] = "waiting" /\ pc'[c] = "done" /\ inflight' = inflight /\ ~closed)
                => /\ waited[c] = WaitTimeout
                   /\ outcome'[c].body = "response"
                   /\ outcome'[c].id = req[c].id
                   /\ outcome'[c].isError
                   /\ outcome'[c].code = InternalError
                   /\ outcome'[c].why = "timeout"]_vars

\* C3 witness: a Request has returned with the timeout error.
C3_Witness ==
    \E c \in Callers : Returned(c) /\ IsRequest(c) /\ outcome[c].why = "timeout"

\* C4: a Notification is pushed onto the inbound channel and then returns
\* with no body; it never waits on the outbound channel, never takes a
\* message from it and never returns a Response.
C4_NotificationNoResponse ==
    /\ [](\A c \in Callers : req[c].kind = "notification" =>
            /\ pc[c] # "waiting"
            /\ \A i \in 1..Len(recvq) : recvq[i] # c
            /\ outcome[c].body # "response")
    /\ [][\A c \in Callers :
            (req[c].kind = "notification" /\ pc[c] = "sending" /\ pc'[c] = "done")
                => /\ outq' = outq
                   /\ recvq' = recvq
                   /\ (outcome'[c].body = "null" \/ closed)]_vars

\* C4 witness: a Notification returned with no body while a reply of the
\* engine was available on the outbound channel.
C4_Witness ==
    \E c \in Callers :
        /\ req[c].kind = "notification"
        /\ Returned(c)
        /\ outcome[c].body = "null"
        /\ outq # <<>>

\* C5: after a call has failed (validation failure, failed execution or
\* timeout), a valid Request submitted afterwards that gets a Response gets
\* the Response generated for that Request.
C5_ServesAfterFailure ==
    \A c \in Callers :
        (afterFailure[c] /\ Returned(c) /\ IsRequest(c)
            /\ outcome[c].body = "response" /\ ~outcome[c].isError)
            => outcome[c].id = req[c].id

(***************************************************************************)
(* Properties of the engine handlers                                       *)
(***************************************************************************)
Listed == op.method = "resources/list"

\* The descriptor expected for a wiki space and for a tracker project
WikiDescriptor(sp) ==
    [uri |-> <<"confluence://", sp.key>>, name |-> <<"Confluence Space: ">> \o sp.name,
     mimeType |-> "text/plain", description |-> sp.description]

TrackerDescriptor(pj) ==
    [uri |-> <<"jira://", pj.key>>, name |-> <<"Jira Project: ">> \o pj.name,
     mimeType |-> "text/plain", description |-> pj.description]

Range(f) == {f[i] : i \in DOMAIN f}

\* The space listing answered with a result list
WikiHealthy ==
    /\ Len(calls) >= 1
    /\ ~calls[1].ret.raised
    /\ calls[1].ret.value.isDict
    /\ calls[1].ret.value.hasResults

\* C6: with both providers healthy resources/list returns the union of the
\* wiki-space and the tracker-project descriptors; with the tracker listing
\* raising it succeeds and returns exactly the wiki-derived descriptors.
C6_ListUnionAndTrackerFailure ==
    (Listed /\ WikiHealthy) =>
        LET spaces == calls[1].ret.value.results
            wiki == [i \in 1..Len(spaces) |-> WikiDescriptor(spaces[i])]
        IN  /\ Len(calls) = 2
            /\ result.ok
            /\ IF calls[2].ret.raised
                   THEN result.value = wiki
                   ELSE LET projects == calls[2].ret.value
                        IN  /\ Len(result.value) = Len(spaces) + Len(projects)
                            /\ Range(result.value) =
                                   Range(wiki) \cup {TrackerDescriptor(pj) : pj \in Range(projects)}

\* C6 witness: the tracker listing raised and the wiki returned spaces.
C6_Witness ==
    /\ Listed
    /\ WikiHealthy
    /\ Len(calls[1].ret.value.results) = MaxItems
    /\ calls[2].ret.raised
    /\ Len(result.value) = MaxItems

\* C7: when the wiki space listing raises, resources/list still succeeds
\* and returns the tracker-derived descriptors.
C7_WikiFailureTolerated ==
    (Listed /\ calls[1].ret.raised) =>
        /\ result.ok
        /\ Len(calls) = 2
        /\ ~calls[2].ret.raised =>
               result.value = [i \in 1..Len(calls[2].ret.value) |->
                                   TrackerDescriptor(calls[2].ret.value[i])]

Called(name) == op.method = "tools/call" /\ op.name = name

LimitTools == {"confluence_search", "jira_search", "jira_get_project_issues"}

\* The limit handed to the provider: the last argument of the call
PassedLimit == calls[1].args[Len(calls[1].args)]

\* The integer the caller asked for, 10 when it gave none
RequestedLimit ==
    IF "limit" \in op.arguments.keys THEN op.arguments.limit.v ELSE 10

RequiredArg(name) ==
    CASE name = "confluence_search" -> "query"
      [] name = "confluence_get_page" -> "page_id"
      [] name = "confluence_get_comments" -> "page_id"
      [] name = "jira_get_issue" -> "issue_key"
      [] name = "jira_search" -> "jql"
      [] name = "jira_get_project_issues" -> "project_key"

\* C8: for the three tools that take a limit and every integer requested
\* limit, the limit passed to the provider is min(requested, 50), with 10
\* as the requested limit when none is given.
C8_LimitClamped ==
    \A name \in LimitTools :
        (Called(name)
            /\ ("limit" \in op.arguments.keys => op.arguments.limit.t = "int")
            /\ RequiredArg(name) \in op.arguments.keys)
            => /\ Len(calls) = 1
               /\ PassedLimit = IF RequestedLimit > 50 THEN 50 ELSE RequestedLimit

\* C8 witness: confluence_search asked for 1000 and the provider got 50.
C8_Witness ==
    /\ Called("confluence_search")
    /\ "limit" \in op.arguments.keys
    /\ op.arguments.limit = IntVal(1000)
    /\ Len(calls) = 1
    /\ PassedLimit = 50

\* C9: every result item of jira_search has as excerpt the first 500
\* characters of the body followed by the ellipsis when the body is longer
\* than 500 characters, and the body itself when it is not.
C9_ExcerptTruncated ==
    (Called("jira_search") /\ result.ok) =>
        LET docs == calls[1].ret.value
        IN  /\ Len(result.value) = Len(docs)
            /\ \A i \in 1..Len(docs) :
                   LET body == docs[i].content
                       excerpt == result.value[i].excerpt
                   IN  IF Len(body) > 500
                           THEN /\ Len(excerpt) = 500 + 3
                                /\ \A k \in 1..500 : excerpt[k] = body[k]
                                /\ \A k \in 501..503 : excerpt[k] = "."
                           ELSE excerpt = body

\* C9 witness: one search returned a body of 650 and a body of 300
\* characters.
C9_Witness ==
    /\ Called("jira_search")
    /\ result.ok
    /\ \E i, j \in 1..Len(result.value) :
           /\ Len(calls[1].ret.value[i].content) = 650
           /\ Len(result.value[i].excerpt) = 503
           /\ Len(calls[1].ret.value[j].content) = 300
           /\ Len(result.value[j].excerpt) = 300

Read == op.method = "resources/read"

\* A header, a blank line, the body, and the closing rule
HeaderedBlock(header, body) == header \o <<"\n\n">> \o body \o <<"\n---">>

\* The first n blocks, in order, with a blank line between neighbours
RECURSIVE BlocksText(_, _)
BlocksText(blocks, n) ==
    IF n = 0 THEN <<>>
    ELSE IF n = 1 THEN blocks[1]
    ELSE BlocksText(blocks, n - 1) \o <<"\n\n">> \o blocks[n]

\* The one provider call made, and that it returned
Returned1(fn, args) ==
    /\ Len(calls) = 1
    /\ calls[1].fn = fn
    /\ calls[1].args = args
    /\ ~calls[1].ret.raised

\* C10: resources/read of a one-segment wiki (tracker) URI returns every
\* page (issue) the provider lists for that space (project) as header-and-
\* body blocks ending in ---, in provider order, joined by blank lines; of a
\* {space}/pages/{title} wiki URI, the body of the page looked up by space
\* and title; of a {project}/issues/{key} tracker URI, the body of the issue
\* looked up by key.
C10_ReadDispatch ==
    Read =>
        /\ (op.scheme = "confluence://" /\ Len(op.segs) = 1 /\ Len(calls) = 1
                /\ ~calls[1].ret.raised) =>
               LET docs == calls[1].ret.value
               IN  /\ Returned1("get_space_pages", <<op.segs[1]>>)
                   /\ result.ok
                   /\ result.value = BlocksText(
                          [i \in 1..Len(docs) |->
                              HeaderedBlock(<<"# ", docs[i].title>>, docs[i].content)],
                          Len(docs))
        /\ (op.scheme = "jira://" /\ Len(op.segs) = 1 /\ Len(calls) = 1
                /\ ~calls[1].ret.raised) =>
               LET docs == calls[1].ret.value
               IN  /\ Returned1("get_project_issues", <<op.segs[1]>>)
                   /\ result.ok
                   /\ result.value = BlocksText(
                          [i \in 1..Len(docs) |->
                              HeaderedBlock(<<"# ", docs[i].key, ": ", docs[i].title>>,
                                            docs[i].content)],
                          Len(docs))
        /\ (op.scheme = "confluence://" /\ Len(op.segs) = 3 /\ op.segs[2] = <<"pages">>
                /\ Len(calls) = 1 /\ ~calls[1].ret.raised /\ ~calls[1].ret.value.none) =>
               /\ Returned1("get_page_by_title", <<op.segs[1], op.segs[3]>>)
               /\ result.ok
               /\ result.value = calls[1].ret.value.content
        /\ (op.scheme = "jira://" /\ Len(op.segs) = 3 /\ op.segs[2] = <<"issues">>
                /\ Len(calls) = 1 /\ ~calls[1].ret.raised /\ ~calls[1].ret.value.none) =>
               /\ Returned1("get_issue", <<op.segs[3]>>)
               /\ result.ok
               /\ result.value = calls[1].ret.value.content
        /\ (op.scheme \in {"confluence://", "jira://"}
                /\ (Len(op.segs) = 1
                    \/ (Len(op.segs) = 3
                        /\ op.segs[2] = IF op.scheme = "jira://" THEN <<"issues">>
                                        ELSE <<"pages">>))) =>
               Len(calls) = 1

\* C10 witness: a wiki space with several pages was read.
C10_Witness ==
    /\ Read
    /\ op.scheme = "confluence://"
    /\ Len(op.segs) = 1
    /\ result.ok
    /\ Len(calls[1].ret.value) = MaxDocs
    /\ MaxDocs >= 2

\* The four accepted forms of a URI
AcceptedForm ==
    /\ op.scheme \in {"confluence://", "jira://"}
    /\ \/ Len(op.segs) = 1
       \/ /\ Len(op.segs) = 3
          /\ op.segs[2] = IF op.scheme = "jira://" THEN <<"issues">> ELSE <<"pages">>

\* C11: resources/read of a URI that is not of one of the four accepted
\* forms fails with the "Invalid resource URI" error and makes no provider
\* call; this covers other schemes, two-segment paths, a wrong middle
\* segment and paths of more than three segments.
C11_OtherUrisInvalid ==
    (Read /\ ~AcceptedForm) =>
        /\ ~result.ok
        /\ result.error = <<"Invalid resource URI">>
        /\ calls = <<>>

(***************************************************************************)
(* Properties of the validation layer                                      *)
(***************************************************************************)
Validated(method) == op.method = "validate" /\ op.name = method

\* C12: initialize params in which some of protocolVersion, capabilities,
\* clientInfo are absent fail validation, and the missing-field set
\* reported is exactly the set of the absent fields.
C12_MissingFieldsExact ==
    (Validated("initialize") /\ ~op.params.isNone
        /\ {"protocolVersion", "capabilities", "clientInfo"} \ op.params.keys # {})
        => /\ ~result.ok
           /\ result.missing =
                  {"protocolVersion", "capabilities", "clientInfo"} \ op.params.keys

\* C12 witness: two fields were absent, one present, and both were reported.
C12_Witness ==
    /\ Validated("initialize")
    /\ op.params.keys = {"protocolVersion"}
    /\ result.missing = {"capabilities", "clientInfo"}

(***************************************************************************)
(* Failures: what reaches the caller                                       *)
(***************************************************************************)
\* C13: on the HTTP endpoint a call whose params fail validation is
\* answered with HTTP 400, and a Request whose wait times out is answered
\* with HTTP 500.
C13_TransportFailureStatus ==
    \A c \in Callers :
        Returned(c) =>
            /\ outcome[c].why = "validation" => outcome[c].status = 400
            /\ (outcome[c].why = "timeout" /\ IsRequest(c)) => outcome[c].status = 500

\* The provider call of the operation raised
ProviderRaised == calls # <<>> /\ calls[Len(calls)].ret.raised

\* C14: when the provider call of a tools/call raises, the error returned
\* is the same whatever the detail of the provider's error: the run with
\* any other detail, all else equal, returns the identical error.
C14_ProviderDetailHidden ==
    (op.method = "tools/call" /\ ProviderRaised) =>
        \A d \in ErrorDetails :
            call_tool(op.name, op.arguments, Failing(d)).error = result.error

\* C15: a provider exception during resources/read reaches the caller as
\* the generic execution-failure error, as for tools/call.
C15_ReadFailureGeneric ==
    (Read /\ ProviderRaised) =>
        /\ ~result.ok
        /\ Head(result.error) = "Tool execution failed: "

\* C16: a tools/call naming a tool that is not registered, or lacking the
\* required argument of the tool it names, fails without any provider
\* call; the error for an unknown tool names it.
C16_FailsBeforeProvider ==
    /\ (op.method = "tools/call" /\ op.name \notin ToolNames) =>
           /\ ~result.ok
           /\ calls = <<>>
           /\ \E i \in 1..Len(result.error) : result.error[i] = op.name
    /\ \A name \in ToolNames :
           (Called(name) /\ RequiredArg(name) \notin op.arguments.keys) =>
               /\ ~result.ok
               /\ calls = <<>>

\* C16 witness: jira_search was called with a valid limit and without jql,
\* and failed with no provider call.
C16_Witness ==
    /\ Called("jira_search")
    /\ op.arguments.keys = {"limit", "fields"}
    /\ op.arguments.limit.t = "int"
    /\ ~result.ok
    /\ calls = <<>>

(***************************************************************************)
(* Validation before dispatch                                              *)
(***************************************************************************)
\* C17: on both bindings a message whose params fail validation for its
\* method is never dispatched by the engine; here for the duplex-stream
\* binding.
C17_ValidatedBeforeDispatch ==
    op.method = "dispatch" => validate_request(op.name, op.params).ok

\* A call that the validators reject: a method with a validator, no params
Rejected(r) == r.method \in {"initialize", "resources/read", "tools/call", "completion/complete"}
                   /\ r.params.isNone

\* C18: when a call arriving on the synchronous binding fails validation,
\* the handler is done in that step: nothing is sent on the inbound
\* channel, nothing is read from the outbound channel, and both channels
\* and the engine are left as they were.
C18_ValidationFailureFrame ==
    [][\A c \in Callers :
          (pc[c] = "idle" /\ pc'[c] # "idle" /\ Rejected(req'[c])) =>
              /\ pc'[c] = "done"
              /\ recvq' = recvq
              /\ outq' = outq
              /\ inflight' = inflight
              /\ engine' = engine
              /\ closed' = closed]_vars

\* C18 witness: a call failed validation while the engine was running and
\* a reply was waiting on the outbound channel, which is still there.
C18_Witness ==
    \E c \in Callers :
        /\ Returned(c)
        /\ outcome[c].why = "validation"
        /\ engine = "running"
        /\ outq # <<>>

(***************************************************************************)
(* Properties of the lifecycle                                             *)
(***************************************************************************)
\* C19: at shutdown a task that is still running is cancelled and awaited:
\* while shutdown waits the cancellation has been sent, shutdown is over
\* only with the task terminated, and no exception has left it, whether
\* the task ended cancelled or raising.
C19_ShutdownAwaitsAndAbsorbs ==
    /\ life = "awaiting" => cancelSent
    /\ life = "down" => /\ task \in TaskDone
                        /\ propagated = "none"

\* C19 witness: shutdown is over after a running task was cancelled and
\* ended with the cancellation.
C19_Witness == life = "down" /\ cancelSent /\ task = "cancelled"

\* The states of the lifespan from yield on
Booted == {"serving", "awaiting", "down"}

\* C20: startup creates the background task exactly once and always goes
\* on to serving: whatever the probe saw, the expected status, another
\* status or its timeout, the boot is not aborted and serving is reached.
C20_BootAlwaysServes ==
    /\ [](/\ launched <= 1
          /\ life # "boot" => launched = 1
          /\ life # "aborted"
          /\ probe # "none" => life \in Booted)
    /\ (life = "boot") ~> (life = "serving")

\* C20 witness: the probe timed out and the service is serving, with the
\* task created once.
C20_Witness == probe = "timeout" /\ life = "serving" /\ launched = 1

(***************************************************************************)
(* Correlation of replies on the shared channel pair                       *)
(***************************************************************************)
InFlight(c) == pc[c] \in {"sending", "waiting"}

\* At most one synchronous call is in flight
OneInFlight == Cardinality({c \in Callers : InFlight(c)}) <= 1

\* No Request has ended by its deadline or by the engine going away
RepliedInTime ==
    \A c \in Callers :
        (Returned(c) /\ IsRequest(c)) => outcome[c].why \notin {"timeout", "channel"}

\* C21: when at most one call is ever in flight and every Request is
\* replied to before its deadline, every reply returned to a Request
\* carries the id of that Request, and whenever no call is in flight the
\* outbound channel holds no message.
C21_SerialCallsCorrelate ==
    ([]OneInFlight /\ []RepliedInTime) =>
        [](/\ \A c \in Callers :
                  (Returned(c) /\ IsRequest(c)) => outcome[c].id = req[c].id
           /\ (\A c \in Callers : ~InFlight(c)) => outq = <<>>)

\* C21 witness: every call was a Request, each got the engine's response
\* with its own id, and the outbound channel is empty.
C21_Witness ==
    /\ \A c \in Callers :
           /\ Returned(c)
           /\ IsRequest(c)
           /\ outcome[c].body = "response"
           /\ ~outcome[c].isError
           /\ outcome[c].id = req[c].id
    /\ outq = <<>>

TimedOut(d) == Returned(d) /\ IsRequest(d) /\ outcome[d].why = "timeout"

\* C22: the Response that the engine emits for a Request after that
\* Request timed out is returned to nobody: once a Request has timed out,
\* no call that returns from then on, later or concurrent, returns a
\* response carrying the id of the timed-out Request.
C22_LateResponseOrphaned ==
    [][\A c, d \in Callers :
          (/\ TimedOut(d)
           /\ ~Returned(c)
           /\ pc'[c] = "done"
           /\ outcome'[c].body = "response"
           /\ ~outcome'[c].isError)
              => outcome'[c].id # req[d].id]_vars

\* C23: the limit passed to the provider by the three tools that take one
\* lies in 1..50 for every integer limit requested, zero and negative
\* ones included.
C23_LimitWithinSchema ==
    \A name \in LimitTools :
        (Called(name)
            /\ ("limit" \in op.arguments.keys => op.arguments.limit.t = "int")
            /\ Len(calls) = 1)
            => PassedLimit \in 1..LimitCap

(***************************************************************************)
(* Validation: what passes, and what a failed Request is answered          *)
(***************************************************************************)
\* Params that initialize requires: present, the three fields there,
\* protocolVersion a string, capabilities and clientInfo objects, clientInfo
\* holding name and version
WellFormedInitialize(p) ==
    /\ ~p.isNone
    /\ {"protocolVersion", "capabilities", "clientInfo"} \subseteq p.keys
    /\ p.types["protocolVersion"] = "str"
    /\ p.types["capabilities"] = "dict"
    /\ p.types["clientInfo"] = "dict"
    /\ {"name", "version"} \subseteq p.ciKeys

\* C24: validation of initialize succeeds exactly for the params that are
\* present, hold protocolVersion as a string, capabilities as an object and
\* clientInfo as an object with name and version; any other params give a
\* validation error.
C24_InitializeValidIff ==
    Validated("initialize") =>
        /\ result.ok <=> WellFormedInitialize(op.params)
        /\ ~result.ok => result.status = 400

\* C24 witness: well-formed params were validated and passed.
C24_Witness ==
    /\ Validated("initialize")
    /\ WellFormedInitialize(op.params)
    /\ result.ok

\* The methods with a validator
WithValidator == {"initialize", "resources/read", "tools/call", "completion/complete"}

\* C25: a method without validator passes validation with any params,
\* present or absent, and a call of such a method on the synchronous
\* binding goes on to send its message to the engine.
C25_UnvalidatedForwarded ==
    [][/\ \A m \in Methods \ WithValidator : \A p \in ParamsOf(m) : validate_request(m, p).ok
       /\ \A c \in Callers :
              (pc[c] = "idle" /\ pc'[c] # "idle" /\ req'[c].method \notin WithValidator)
                  => pc'[c] = "sending"]_vars

\* C25 witness: tools/list without params was taken by the engine.
C25_Witness ==
    \E c \in Callers :
        /\ req[c].method = "tools/list"
        /\ req[c].params.isNone
        /\ pc[c] \in {"waiting", "done"}
        /\ outcome[c].why # "validation"
        /\ req[c].id \in inflight

\* The ways the handling of a Request fails inside the binding
Failures == {"validation", "timeout", "exception", "unexpected", "channel"}

\* C26: a Request whose handling failed, by validation, timeout, an
\* exception object or another message than a response received, or a
\* channel failure, is answered with its own id and the code -32603.
C26_FailedRequestReply ==
    \A c \in Callers :
        (Returned(c) /\ IsRequest(c) /\ outcome[c].why \in Failures)
            => /\ outcome[c].body = "response"
               /\ outcome[c].id = req[c].id
               /\ outcome[c].code = -32603

\* C26 witness: a Request that received an exception object from the
\* outbound channel was answered, after another Request had timed out.
C26_Witness ==
    \E c, d \in Callers :
        /\ Returned(c) /\ IsRequest(c) /\ outcome[c].why = "exception"
        /\ Returned(d) /\ IsRequest(d) /\ outcome[d].why = "timeout"

(***************************************************************************)
(* The tool registry                                                       *)
(***************************************************************************)
ListedNames == {list_tools[i].name : i \in 1..Len(list_tools)}

\* call_tool fell through every branch
UnknownToolPath ==
    /\ ~result.ok
    /\ result.error = <<"Tool execution failed: ", "Unknown tool: ", op.name>>

\* C27: tools/list returns six descriptors with six different names,
\* whatever was called before, and a tools/call takes the unknown-tool
\* path exactly when the name it is given is not one of the listed names.
C27_RegistryMatchesDispatch ==
    /\ op.method = "tools/list" =>
           /\ result.ok
           /\ Len(result.value) = 6
           /\ Cardinality({result.value[i].name : i \in 1..Len(result.value)}) = 6
           /\ calls = <<>>
    /\ op.method = "tools/call" => (op.name \in ListedNames <=> ~UnknownToolPath)

\* C27 witness: the last listed tool was called with its required
\* argument and reached the provider.
C27_Witness ==
    /\ Called(list_tools[Len(list_tools)].name)
    /\ Len(calls) = 1
    /\ result.ok

====
